---- MODULE Spec2Model ----
(***************************************************************************)
(* AegisQuant server actions (apps/web/app/actions.ts, kept in             *)
(* src/apps/web/app/docs/page.tsx lines 75-882): the snapshot store, the   *)
(* feature / regime pipeline and the statistics and backtest queries.      *)
(*                                                                         *)
(* Numbers.  A JavaScript number is modelled as an exact rational <<n, d>> *)
(* in lowest terms with d > 0; null is the empty tuple.  + - * / and the   *)
(* comparisons are exact.  Math.log, Math.sqrt and Math.exp are rounded:   *)
(* Math.log through a table of 100*ln(k), Math.sqrt to three decimals,     *)
(* the logistic function through a table in steps of 1/4, saturating at 0  *)
(* and 1 where double precision saturates.  Math.pow is kept as the term   *)
(* of its arguments.                                                       *)
(*                                                                         *)
(* Dates are day numbers (ISO dates compare as their day numbers do), the  *)
(* clock counts whole UTC seconds, which is all utcStamp keeps of the      *)
(* time.  One symbol is modelled.                                          *)
(***************************************************************************)
EXTENDS Integers, Sequences, FiniteSets, TLC

VARIABLES
    now,        \* wall clock, in whole UTC seconds
    rawDir,     \* RAW_DIR: file name -> RawRow[]
    procDir,    \* PROCESSED_DIR: file name -> FeatureRow[] or RegimeRow[]
    last,       \* the most recent call: its name, arguments and outcome
    calls,      \* pullPrices, processFeatures and runRegimeModel calls so far
    fnIn,       \* arguments of a direct call of an internal function
    fnOut,      \* and what it returned
    page        \* the Research page: its React state and requests in flight

vars == <<now, rawDir, procDir, last, calls, fnIn, fnOut, page>>

----------------------------------------------------------------------------
(* Exact rational arithmetic                                               *)

Null == <<>>

Abs(x) == IF x < 0 THEN -x ELSE x

RECURSIVE GCD(_, _)
GCD(a, b) == IF b = 0 THEN a ELSE GCD(b, a % b)

Norm(n, d) ==
    LET s == IF d < 0 THEN -1 ELSE 1
        g == GCD(Abs(n), Abs(d))
    IN  IF n = 0 THEN <<0, 1>> ELSE <<(s * n) \div g, (s * d) \div g>>

R(i) == <<i, 1>>

Zero == <<0, 1>>
One == <<1, 1>>

RNeg(a) == <<-a[1], a[2]>>

RAdd(a, b) ==
    LET g == GCD(a[2], b[2])
        l == (a[2] \div g) * b[2]
    IN  Norm(a[1] * (l \div a[2]) + b[1] * (l \div b[2]), l)

RSub(a, b) == RAdd(a, RNeg(b))

RMul(a, b) ==
    LET g1 == GCD(Abs(a[1]), b[2])
        g2 == GCD(Abs(b[1]), a[2])
    IN  IF a[1] = 0 \/ b[1] = 0 THEN Zero
        ELSE Norm((a[1] \div g1) * (b[1] \div g2), (a[2] \div g2) * (b[2] \div g1))

\* b # 0
RDiv(a, b) == RMul(a, IF b[1] < 0 THEN <<-b[2], -b[1]>> ELSE <<b[2], b[1]>>)

Floor(a) == a[1] \div a[2]

\* a < b, compared without cross-multiplying: integer parts first, then the
\* fractional parts through their reciprocals.
RECURSIVE RLt(_, _)
RLt(a, b) ==
    LET qa == Floor(a)
        qb == Floor(b)
        ra == a[1] % a[2]
        rb == b[1] % b[2]
    IN  IF qa # qb THEN qa < qb
        ELSE IF rb = 0 THEN FALSE
        ELSE IF ra = 0 THEN TRUE
        ELSE RLt(<<b[2], rb>>, <<a[2], ra>>)

RLe(a, b) == ~RLt(b, a)

RMax(a, b) == IF RLt(a, b) THEN b ELSE a
RMin(a, b) == IF RLt(b, a) THEN b ELSE a

IMax(a, b) == IF a < b THEN b ELSE a
IMin(a, b) == IF b < a THEN b ELSE a

----------------------------------------------------------------------------
(* Math.log, Math.sqrt, Math.pow                                           *)

\* round(100 * ln k), k = 1..9
LnTab == <<0, 69, 110, 139, 161, 179, 195, 208, 220>>

\* Math.log of a positive rational whose terms are in the table
MathLog(q) == Norm(LnTab[q[1]] - LnTab[q[2]], 100)

\* floor(q * 10^k), one decimal digit at a time
RECURSIVE Decimals(_, _, _, _)
Decimals(acc, r, d, k) ==
    IF k = 0 THEN acc
    ELSE Decimals(acc * 10 + (r * 10) \div d, (r * 10) % d, d, k - 1)

RECURSIVE ISqrtBetween(_, _, _)
ISqrtBetween(n, lo, hi) ==
    IF hi - lo <= 1 THEN lo
    ELSE LET mid == (lo + hi) \div 2
         IN  IF mid <= n \div mid THEN ISqrtBetween(n, mid, hi)
             ELSE ISqrtBetween(n, lo, mid)

\* floor(sqrt(n)), n >= 0
ISqrt(n) == IF n = 0 THEN 0 ELSE ISqrtBetween(n, 1, IMin(n, 46340) + 1)

\* Math.sqrt of a rational q >= 0, to three decimals
MathSqrt(q) ==
    Norm(ISqrt(Decimals(Floor(q), q[1] % q[2], q[2], 6)), 1000)

\* Math.pow is not interpreted: the result is the term pow(base, exponent)
MathPow(base, e) == <<"pow", base, e>>

----------------------------------------------------------------------------
(* Math utilities.  Arrays are sequences: the code's index i is i + 1 here. *)

\* acc += s[i] for the indices i..n; acc is compared first, so that each
\* partial sum is evaluated before the next step
RECURSIVE SumFrom(_, _, _, _)
SumFrom(s, i, n, acc) ==
    IF acc # Null /\ i <= n THEN SumFrom(s, i + 1, n, RAdd(acc, s[i]))
    ELSE acc

SumSeq(s) == SumFrom(s, 1, Len(s), Zero)

\* arr[i - window + 1 .. i]
Window(arr, i, window) == [j \in 1..window |-> arr[i - window + j]]

\* out[i] of rollingMean: null until the window is full
rollingMeanAt(arr, window, i) ==
    IF i < window THEN Null
    ELSE RDiv(SumFrom(Window(arr, i, window), 1, window, Zero), R(window))

rollingMean(arr, window) ==
    [i \in 1..Len(arr) |-> rollingMeanAt(arr, window, i)]

\* the sum of (s[j] - m)^2 over the n elements of s
SumSqDev(s, n, m) ==
    SumFrom([j \in 1..n |-> LET d == RSub(s[j], m) IN RMul(d, d)], 1, n, Zero)

\* the standard deviation with the sum of squares divided by window (ddof = 0)
rollingStdAtPopulation(arr, window, i) ==
    IF i < window THEN Null
    ELSE MathSqrt(RDiv(SumSqDev(Window(arr, i, window), window,
                                rollingMeanAt(arr, window, i)),
                       R(window)))

\* out[i] of rollingStd: ddof = 1; window >= 2
rollingStdAt(arr, window, i) ==
    IF i < window THEN Null
    ELSE MathSqrt(RDiv(SumSqDev(Window(arr, i, window), window,
                                rollingMeanAt(arr, window, i)),
                       R(window - 1)))

rollingStd(arr, window) ==
    [i \in 1..Len(arr) |-> rollingStdAt(arr, window, i)]

arrMean(arr) == RDiv(SumSeq(arr), R(Len(arr)))

arrStd(arr, ddof) ==
    MathSqrt(RDiv(SumSqDev(arr, Len(arr), arrMean(arr)), R(Len(arr) - ddof)))

\* round(1000 / (1 + exp(-q/4))), q = 0..24
SigmoidTab ==
    <<500, 562, 622, 679, 731, 777, 818, 852, 881, 905, 924, 940, 953,
      963, 971, 977, 982, 986, 989, 991, 993, 995, 996, 997, 998>>

\* x rounded to the nearest quarter, in quarters
Quarters(x) == Floor(RAdd(RMul(x, R(4)), <<1, 2>>))

\* 1 / (1 + Math.exp(-x)).  In double precision 1 + exp(-x) is 1 from
\* x = 37 on, and exp(-x) is Infinity from x = -710 down.
sigmoid(x) ==
    LET q == Quarters(x)
    IN  IF RLe(R(37), x) THEN One
        ELSE IF RLe(x, R(-710)) THEN Zero
        ELSE IF q > 24 THEN <<999, 1000>>
        ELSE IF q < -24 THEN <<1, 1000>>
        ELSE IF q >= 0 THEN Norm(SigmoidTab[q + 1], 1000)
        ELSE Norm(1000 - SigmoidTab[1 - q], 1000)

----------------------------------------------------------------------------
(* Array helpers                                                           *)

\* arr.sort((a, b) => a.date.localeCompare(b.date)) on a copy: stable, so
\* a row goes after the rows of earlier dates and the earlier rows of its date
SortByDate(s) ==
    LET n == Len(s)
        rank == [i \in 1..n |->
                   1 + Cardinality({j \in 1..n :
                          \/ s[j].date < s[i].date
                          \/ s[j].date = s[i].date /\ j < i})]
    IN  IF \A i \in 1..(n - 1) : s[i].date <= s[i + 1].date THEN s
        ELSE [k \in 1..n |-> s[CHOOSE i \in 1..n : rank[i] = k]]

\* arr.slice(-k), k >= 1
SliceLast(arr, k) == SubSeq(arr, IMax(1, Len(arr) - k + 1), Len(arr))

\* arr.slice(0, k), k >= 0
SliceFirst(arr, k) == SubSeq(arr, 1, IMin(k, Len(arr)))

\* the indices in keep, a subset of 1..n, in ascending order
Indices(keep, n) ==
    LET rank == [i \in keep |-> Cardinality({j \in keep : j <= i})]
    IN  IF keep = 1..n THEN [k \in 1..n |-> k]
        ELSE [k \in 1..Cardinality(keep) |-> CHOOSE i \in keep : rank[i] = k]

\* arr.filter(...), keep the set of indices that pass
Filter(arr, keep) ==
    LET size == Cardinality(keep)
        idx == Indices(keep, Len(arr))
    IN  SubSeq([k \in 1..size |-> arr[idx[k]]], 1, size)

\* the rows made of the indices of 1..count that pass, in order
Collect(count, pass, make) ==
    LET size == Cardinality(pass)
        idx == Indices(pass, count)
    IN  SubSeq([x \in 1..size |-> make[idx[x]]], 1, size)

\* the array of f[1], ..., f[n], as a sequence value
ArrayOf(f, n) == SubSeq(f, 1, n)

Clamp(lo, x, hi) == IMax(lo, IMin(x, hi))
RClamp(lo, x, hi) == RMax(lo, RMin(hi, x))

----------------------------------------------------------------------------
(* Feature engineering                                                     *)

\* runMax = Math.max(runMax, v) over arr[1..i], from -Infinity
RunMax(arr, i) ==
    CHOOSE m \in {arr[j] : j \in 1..i} : \A j \in 1..i : RLe(arr[j], m)

\* the drawdown taken before the running maximum is updated with closes[i]
drawdownBeforeUpdate(closes, i) ==
    IF i = 1 THEN RNeg(One)
    ELSE RSub(RDiv(closes[i], RunMax(closes, i - 1)), One)

\* runMax = Math.max(runMax, closes[i]); dd.push(closes[i] / runMax - 1)
drawdownAt(closes, i) == RSub(RDiv(closes[i], RunMax(closes, i)), One)

\* the skip test without its momentum operand
FeatureKeptNoMom(logRetI, volI, momI) ==
    logRetI # Null /\ volI # Null

\* logRet[i] === null || vol[i] === null || mom[i] === null: skipped
FeatureKept(logRetI, volI, momI) ==
    logRetI # Null /\ momI # Null /\ volI # Null

buildFeatures(rows, volWindow, momWindow) ==
    LET sorted == SortByDate(rows)
        n == Len(sorted)
        closes == [i \in 1..n |-> sorted[i].close]
        logRet == [i \in 1..n |->
                     IF i = 1 THEN Null
                     ELSE MathLog(RDiv(closes[i], closes[i - 1]))]
        logRetForRoll == [i \in 1..n |->
                            IF logRet[i] = Null THEN Zero ELSE logRet[i]]
        vol(i) == rollingStdAt(logRetForRoll, volWindow, i)
        mom(i) == IF i <= momWindow THEN Null
                  ELSE MathLog(RDiv(closes[i], closes[i - momWindow]))
        dd(i) == drawdownAt(closes, i)
        row(i) ==
            LET base == [date |-> sorted[i].date, close |-> sorted[i].close,
                         log_ret |-> logRet[i], vol_20 |-> vol(i),
                         mom_60 |-> mom(i), drawdown |-> dd(i)]
            IN  IF sorted[i].volume # Null
                THEN [f \in DOMAIN base \cup {"volume"} |->
                         IF f = "volume" THEN sorted[i].volume ELSE base[f]]
                ELSE base
    IN  Collect(n, {i \in 1..n : FeatureKept(logRet[i], vol(i), mom(i))}, [i \in 1..n |-> row(i)])

----------------------------------------------------------------------------
(* Regime model                                                            *)

\* mu[i] === null || sd[i] === null || sd[i] === 0: skipped
RegimeKept(muI, sdI) == muI # Null /\ sdI # Null /\ sdI # Zero

\* the regime rows with the skipped indices kept as rows of null fields
buildBaselineRegimeNullFilled(feats, zWindow, k) ==
    LET sorted == SortByDate(feats)
        n == Len(sorted)
        vols == [i \in 1..n |-> sorted[i].vol_20]
        mu == rollingMean(vols, zWindow)
        sd == rollingStd(vols, zWindow)
        row(i) ==
            IF RegimeKept(mu[i], sd[i])
            THEN [date |-> sorted[i].date,
                  z_vol |-> RDiv(RSub(vols[i], mu[i]), sd[i]),
                  risk_off_prob |->
                      sigmoid(RMul(k, RDiv(RSub(vols[i], mu[i]), sd[i])))]
            ELSE [date |-> sorted[i].date, z_vol |-> Null,
                  risk_off_prob |-> Null]
    IN  ArrayOf([i \in 1..n |-> row(i)], n)

\* volCol is always "vol_20"; zWindow >= 2
buildBaselineRegime(feats, zWindow, k) ==
    LET sorted == SortByDate(feats)
        n == Len(sorted)
        vols == [i \in 1..n |-> sorted[i].vol_20]
        mu == rollingMean(vols, zWindow)
        sd == rollingStd(vols, zWindow)
        row(i) ==
            LET z == RDiv(RSub(vols[i], mu[i]), sd[i])
            IN  [date |-> sorted[i].date, z_vol |-> z,
                 risk_off_prob |-> sigmoid(RMul(k, z))]
    IN  Collect(n, {i \in 1..n : RegimeKept(mu[i], sd[i])}, [i \in 1..n |-> row(i)])

----------------------------------------------------------------------------
(* File I/O.  A file name is its prefix and the fields that follow it; the *)
(* fields are fixed-width strings, so names with one prefix sort as the    *)
(* tuples of their fields do.                                              *)

RawPrefix == "SPY_1d_"
FeaturesPrefix == "SPY_features_"
RegimePrefix == "SPY_regime_baseline_"

NoFile == [prefix |-> "", key |-> <<>>]

utcStamp == now

RECURSIVE LexLess(_, _)
LexLess(a, b) ==
    IF a = <<>> \/ b = <<>> THEN a = <<>> /\ b # <<>>
    ELSE IF a[1] # b[1] THEN a[1] < b[1]
    ELSE LexLess(Tail(a), Tail(b))

\* the last of the matching names in sorted order, or null
latestFile(dir, prefix) ==
    LET matching == {f \in DOMAIN dir : f.prefix = prefix}
    IN  IF matching = {} THEN NoFile
        ELSE CHOOSE f \in matching :
                \A g \in matching : g = f \/ LexLess(g.key, f.key)

readJson(dir, fp) == dir[fp]

\* fs.writeFile: creates the file or replaces its content
writeJson(dir, fp, data) ==
    [f \in DOMAIN dir \cup {fp} |-> IF f = fp THEN data ELSE dir[f]]

RawName(start, stamp) == [prefix |-> RawPrefix, key |-> <<start, stamp>>]
FeaturesName(stamp) == [prefix |-> FeaturesPrefix, key |-> <<stamp>>]
RegimeName(stamp) == [prefix |-> RegimePrefix, key |-> <<stamp>>]

NoRawMessage == "No cached raw data for SPY. Pull data first."
NoFeaturesMessage == "No cached features for SPY. Run process first."
NoRegimeMessage == "No cached regime data for SPY model=baseline. Run regime first."
NoQuotesMessage == "No data returned for SPY"
NoOverlapMessage == "No overlapping dates between features and regime series."
TypeErrorMessage == "TypeError: Cannot read properties of undefined (reading 'date')"

Thrown(op, args, message) ==
    [op |-> op, args |-> args, status |-> "error", message |-> message]
Returned(op, args, value) ==
    [op |-> op, args |-> args, status |-> "ok", value |-> value]
ReturnedNull(op, args) ==
    [op |-> op, args |-> args, status |-> "null"]

VolWindowDefault == 20
MomWindowDefault == 60

----------------------------------------------------------------------------
(* Internal: read cached data.  Each yields [ok, rows] or [ok, message].   *)

readLatestPrices ==
    LET fp == latestFile(rawDir, RawPrefix)
    IN  IF fp = NoFile THEN [ok |-> FALSE, message |-> NoRawMessage]
        ELSE [ok |-> TRUE, rows |-> readJson(rawDir, fp)]

readLatestFeatures ==
    LET fp == latestFile(procDir, FeaturesPrefix)
    IN  IF fp = NoFile THEN [ok |-> FALSE, message |-> NoFeaturesMessage]
        ELSE [ok |-> TRUE, rows |-> readJson(procDir, fp)]

readLatestRegime ==
    LET fp == latestFile(procDir, RegimePrefix)
    IN  IF fp = NoFile THEN [ok |-> FALSE, message |-> NoRegimeMessage]
        ELSE [ok |-> TRUE, rows |-> readJson(procDir, fp)]

----------------------------------------------------------------------------
(* Quality report.  Day 0 is a Sunday.  isoShift is the number of days by  *)
(* which the UTC date of a local midnight precedes the local date: 0 in    *)
(* time zones at or west of UTC, 1 east of it.                             *)

SampleSize == 10

Dow(d) == d % 7

qualityReport(rows, isoShift) ==
    LET sorted == SortByDate(rows)
        n == Len(sorted)
        dupDates == Cardinality({i \in 1..n :
                        \E j \in 1..(i - 1) : sorted[j].date = sorted[i].date})
        startDate == sorted[1].date
        endDate == sorted[n].date
        days == [i \in 1..(endDate - startDate + 1) |-> startDate + i - 1]
        local == Filter(days, {i \in 1..Len(days) : Dow(days[i]) \notin {0, 6}})
        businessDays == [i \in 1..Len(local) |-> local[i] - isoShift]
        actualDates == {sorted[i].date : i \in 1..n}
        missing == Filter(businessDays,
                     {i \in 1..Len(businessDays) : businessDays[i] \notin actualDates})
    IN  IF rows = <<>> THEN [ok |-> FALSE, error |-> "no data"]
        ELSE [ok |-> TRUE,
              rows |-> n,
              start |-> startDate,
              end |-> endDate,
              duplicate_dates |-> dupDates,
              missing_business_days_count |-> Len(missing),
              missing_business_days_sample |-> SliceFirst(missing, SampleSize),
              close_missing |-> Cardinality({i \in 1..n : sorted[i].close = Null}),
              volume_missing |-> Cardinality({i \in 1..n : sorted[i].volume = Null})]

getDataQualityCall(isoShift) ==
    LET read == readLatestPrices
    IN  last' = IF ~read.ok THEN Thrown("getDataQuality", <<>>, read.message)
                ELSE Returned("getDataQuality", <<>>,
                              qualityReport(read.rows, isoShift))

----------------------------------------------------------------------------
(* Data: pull.  quotes is what yf.chart returned for (symbol, start).     *)

\* quotes.map(...).filter(r => r.close !== 0 && r.date != null).sort(...)
RowsOfQuotes(quotes) ==
    LET mapped == [i \in 1..Len(quotes) |->
                     [date |-> quotes[i].date,
                      close |-> IF quotes[i].close = Null THEN Zero
                                ELSE quotes[i].close,
                      volume |-> IF quotes[i].volume = Null THEN Zero
                                 ELSE quotes[i].volume]]
    IN  SortByDate(Filter(mapped,
                             {i \in 1..Len(quotes) : mapped[i].close # Zero}))

\* the record returned after the write: rows[0].date throws on no rows
Written(op, args, rows, fp) ==
    IF rows = <<>> THEN Thrown(op, args, TypeErrorMessage)
    ELSE Returned(op, args,
                  [rows |-> Len(rows), start |-> rows[1].date,
                   end |-> rows[Len(rows)].date, path |-> fp])

pullPricesCall(start, quotes) ==
    LET args == [start |-> start]
        rows == RowsOfQuotes(quotes)
        fp == RawName(start, utcStamp)
    IN  IF quotes = <<>>
        THEN /\ last' = Thrown("pullPrices", args, NoQuotesMessage)
             /\ UNCHANGED rawDir
        ELSE /\ rawDir' = writeJson(rawDir, fp, rows)
             /\ last' = Written("pullPrices", args, rows, fp)

----------------------------------------------------------------------------
(* Features: process                                                       *)

processFeaturesCall ==
    LET read == readLatestPrices
        feats == buildFeatures(read.rows, VolWindowDefault, MomWindowDefault)
        fp == FeaturesName(utcStamp)
    IN  IF ~read.ok
        THEN /\ last' = Thrown("processFeatures", <<>>, read.message)
             /\ UNCHANGED procDir
        ELSE /\ procDir' = writeJson(procDir, fp, feats)
             /\ last' = Written("processFeatures", <<>>, feats, fp)

----------------------------------------------------------------------------
(* Regime: run                                                             *)

runRegimeModelCall(zWindow, k) ==
    LET args == [zWindow |-> zWindow, k |-> k]
        read == readLatestFeatures
        regime == buildBaselineRegime(read.rows, zWindow, k)
        fp == RegimeName(utcStamp)
    IN  IF ~read.ok
        THEN /\ last' = Thrown("runRegimeModel", args, read.message)
             /\ UNCHANGED procDir
        ELSE /\ procDir' = writeJson(procDir, fp, regime)
             /\ last' = Written("runRegimeModel", args, regime, fp)

----------------------------------------------------------------------------
(* Merge of features and regime on date                                    *)

Extend(rec, field, value) ==
    [f \in DOMAIN rec \cup {field} |-> IF f = field THEN value ELSE rec[f]]

\* new Map(regime.map(r => [r.date, r.risk_off_prob])): the last row of a
\* date wins
RegimeMapHas(regime, date) == \E i \in 1..Len(regime) : regime[i].date = date

RegimeMapGet(regime, date) ==
    LET i == CHOOSE i \in 1..Len(regime) :
                /\ regime[i].date = date
                /\ \A j \in (i + 1)..Len(regime) : regime[j].date # date
    IN  regime[i].risk_off_prob

\* feats.filter(f => regimeMap.has(f.date)).map(...).sort(by date)
Merged(feats, regime) ==
    LET keep == {i \in 1..Len(feats) : RegimeMapHas(regime, feats[i].date)}
        joined == [i \in 1..Len(feats) |->
                     IF i \in keep
                     THEN Extend(feats[i], "risk_off_prob",
                                 RegimeMapGet(regime, feats[i].date))
                     ELSE Null]
    IN  SortByDate(Filter(joined, keep))

----------------------------------------------------------------------------
(* Regime: stats                                                           *)

TradingDays == 252
MinSamples == 5

\* the return of the signal day itself
sameDayLogRet(merged, i) == merged[i].log_ret

\* the forward return of merged[i]: the log return of the next row
fwdLogRet(merged, i) == merged[i + 1].log_ret

\* merged.slice(0, -1).map((r, i) => ({...r, fwd_log_ret_1d: ...}))
withFwdOf(merged) ==
    [i \in 1..IMax(0, Len(merged) - 1) |->
        Extend(merged[i], "fwd_log_ret_1d", fwdLogRet(merged, i))]

\* the test with the boundary taken in: a bucket of 5 rows counts as too small
tooFewRowsInclusive(n) == n <= MinSamples

\* if (n < 5) in summarize
tooFewRows(n) == n < MinSamples

summarize(rows, total) ==
    LET n == Len(rows)
        rets == [i \in 1..n |-> rows[i].fwd_log_ret_1d]
        meanD == arrMean(rets)
        volD == arrStd(rets, 1)
        annReturn == RMul(meanD, R(TradingDays))
        annVol == RMul(volD, MathSqrt(R(TradingDays)))
    IN  IF tooFewRows(n)
        THEN [n |-> n,
              coverage |-> IF total > 0 THEN Norm(n, total) ELSE Zero,
              mean_daily |-> Null, ann_return |-> Null,
              ann_vol |-> Null, sharpe |-> Null]
        ELSE [n |-> n,
              coverage |-> Norm(n, total),
              mean_daily |-> meanD, ann_return |-> annReturn,
              ann_vol |-> annVol,
              sharpe |-> IF RLt(Zero, annVol) THEN RDiv(annReturn, annVol)
                         ELSE Null]

StatKeys == {"mean_daily", "ann_return", "ann_vol", "sharpe"}

regimeStats(feats, regime, threshold) ==
    LET merged == Merged(feats, regime)
        withFwd == withFwdOf(merged)
        thr == threshold
        riskOff == Filter(withFwd,
                     {i \in 1..Len(withFwd) : RLe(thr, withFwd[i].risk_off_prob)})
        riskOn == Filter(withFwd,
                     {i \in 1..Len(withFwd) : RLt(withFwd[i].risk_off_prob, thr)})
        riskOffStats == summarize(riskOff, Len(withFwd))
        riskOnStats == summarize(riskOn, Len(withFwd))
        delta == [key \in StatKeys |->
                    IF riskOnStats[key] # Null /\ riskOffStats[key] # Null
                    THEN RSub(riskOnStats[key], riskOffStats[key])
                    ELSE Null]
    IN  [threshold |-> thr,
         rows_used |-> Len(withFwd),
         risk_on |-> riskOnStats,
         risk_off |-> riskOffStats,
         delta_risk_on_minus_off |-> delta]

getRegimeStatsCall(threshold) ==
    LET args == [threshold |-> threshold]
        featsFp == latestFile(procDir, FeaturesPrefix)
        regimeFp == latestFile(procDir, RegimePrefix)
    IN  last' = IF featsFp = NoFile \/ regimeFp = NoFile
                THEN ReturnedNull("getRegimeStats", args)
                ELSE Returned("getRegimeStats", args,
                              regimeStats(readJson(procDir, featsFp),
                                          readJson(procDir, regimeFp), threshold))

----------------------------------------------------------------------------
(* Regime: equity                                                          *)

MaxLimit == 5000
MaxCostBps == 200
BpsPerUnit == 10000

clampThreshold(threshold) == RMax(Zero, RMin(One, threshold))
clampLimit(limit) == IMax(1, IMin(limit, MaxLimit))
clampCostBps(costBps) == RMax(Zero, RMin(R(MaxCostBps), costBps))

\* the position with the comparison turned round
positionOfInverted(riskOffProb, threshold) ==
    IF RLt(riskOffProb, threshold) THEN 0 ELSE 1

\* invest when risk_off_prob < threshold
positionOf(riskOffProb, threshold) == IF RLt(riskOffProb, threshold) THEN 1 ELSE 0

\* a trade counted only when the position is entered
tradeOfEntry(pos, i) ==
    IF i = 1 THEN 0 ELSE IF pos[i] = 1 /\ pos[i - 1] = 0 THEN 1 ELSE 0

\* trade = [0]; trade.push(pos[i] !== pos[i - 1] ? 1 : 0)
tradeOf(pos, i) ==
    IF i = 1 THEN 0 ELSE IF pos[i] # pos[i - 1] THEN 1 ELSE 0

\* the day's strategy return before and after costs
\* the gross return without the position: always invested
regimeGrossRetOfInvested(ret, pos) == ret

regimeGrossRetOf(ret, pos) == RMul(ret, R(pos))
\* the net return taken from the market return instead of the position's
regimeNetRetOfMarket(ret, pos, tc) == RSub(ret, tc)
regimeNetRetOf(ret, pos, tc) == RSub(regimeGrossRetOf(ret, pos), tc)

\* eq *= 1 + r, from 1
RECURSIVE Compound(_, _)
Compound(rets, i) ==
    IF i = 0 THEN One ELSE RMul(Compound(rets, i - 1), RAdd(One, rets[i]))

Curve(rets) == ArrayOf([i \in 1..Len(rets) |-> Compound(rets, i)], Len(rets))

RECURSIVE MaxDd(_, _)
MaxDd(eq, i) ==
    IF i = 0 THEN Zero
    ELSE RMin(MaxDd(eq, i - 1), RSub(RDiv(eq[i], RunMax(eq, i)), One))

\* the drawdown taken from the first value instead of the running maximum
RECURSIVE MaxDdFromStart(_, _)
MaxDdFromStart(eq, i) ==
    IF i = 0 THEN Zero
    ELSE RMin(MaxDdFromStart(eq, i - 1), RSub(RDiv(eq[i], eq[1]), One))

maxDrawdownFromStart(eq) == MaxDdFromStart(eq, Len(eq))

maxDrawdownFromEquity(eq) == MaxDd(eq, Len(eq))

yearsOf(n) == RMax(<<1, 1000000000>>, Norm(n, TradingDays))

perfFromReturns(rets) ==
    LET n == Len(rets)
        meanD == arrMean(rets)
        volD == arrStd(rets, 1)
        annReturn == RMul(meanD, R(TradingDays))
        annVol == RMul(volD, MathSqrt(R(TradingDays)))
        eq == Compound(rets, n)
    IN  IF n < MinSamples
        THEN [n |-> n, cagr |-> Null, ann_return |-> Null,
              ann_vol |-> Null, sharpe |-> Null]
        ELSE [n |-> n,
              cagr |-> <<"minus1", MathPow(eq, RDiv(One, yearsOf(n)))>>,
              ann_return |-> annReturn, ann_vol |-> annVol,
              sharpe |-> IF RLt(Zero, annVol) THEN RDiv(annReturn, annVol)
                         ELSE Null]

summary(eqArr, retArr) ==
    LET stats == perfFromReturns(retArr)
    IN  [n |-> stats.n, cagr |-> stats.cagr, ann_return |-> stats.ann_return,
         ann_vol |-> stats.ann_vol, sharpe |-> stats.sharpe,
         max_drawdown |-> maxDrawdownFromEquity(eqArr),
         final_equity |-> eqArr[Len(eqArr)]]

RECURSIVE SumIntsTo(_, _)
SumIntsTo(s, i) == IF i = 0 THEN 0 ELSE SumIntsTo(s, i - 1) + s[i]

SumInts(s) == SumIntsTo(s, Len(s))

\* allData.slice(0, limit)
outDataOfHead(allData, limit) == SliceFirst(allData, limit)

\* allData.slice(-limit)
outDataOf(allData, limit) == SliceLast(allData, limit)

\* getRegimeEquity after the merge, on a non-empty merged series
regimeEquity(merged, threshold, costBps, limit) ==
    LET L == Len(merged)
        cost == RDiv(costBps, R(BpsPerUnit))
        ret == ArrayOf([i \in 1..L |->
                  IF i = 1 THEN Zero
                  ELSE RDiv(RSub(merged[i].close, merged[i - 1].close),
                            merged[i - 1].close)], L)
        pos == ArrayOf([i \in 1..L |->
                  positionOf(merged[i].risk_off_prob, threshold)], L)
        trade == ArrayOf([i \in 1..L |-> tradeOf(pos, i)], L)
        regimeGrossRet == ArrayOf([i \in 1..L |->
                             regimeGrossRetOf(ret[i], pos[i])], L)
        regimeNetRet == ArrayOf([i \in 1..L |->
                           regimeNetRetOf(ret[i], pos[i],
                                          RMul(R(trade[i]), cost))], L)
        bh == Curve(ret)
        regimeGross == Curve(regimeGrossRet)
        regimeNet == Curve(regimeNetRet)
        trades == SumInts(trade)
        years == yearsOf(L)
        allData == [i \in 1..L |->
                      [date |-> merged[i].date, bh |-> bh[i],
                       regime_gross |-> regimeGross[i],
                       regime_net |-> regimeNet[i],
                       pos |-> pos[i], trade |-> trade[i]]]
        outData == outDataOf(allData, limit)
    IN  [threshold |-> threshold,
         cost_bps |-> costBps,
         start |-> merged[1].date,
         end |-> merged[L].date,
         rows |-> Len(outData),
         trades |-> trades,
         trades_per_year |-> RDiv(R(trades), years),
         cost_drag_final_equity |-> RSub(regimeGross[L], regimeNet[L]),
         summaries |-> [buy_hold |-> summary(bh, ret),
                        regime_gross |-> summary(regimeGross, regimeGrossRet),
                        regime_net |-> summary(regimeNet, regimeNetRet)],
         data |-> outData]

EquityMerged(feats, regime) ==
    LET keep == {i \in 1..Len(feats) : RegimeMapHas(regime, feats[i].date)}
        joined == [i \in 1..Len(feats) |->
                     IF i \in keep
                     THEN [date |-> feats[i].date, close |-> feats[i].close,
                           risk_off_prob |-> RegimeMapGet(regime, feats[i].date)]
                     ELSE Null]
    IN  SortByDate(Filter(joined, keep))

getRegimeEquityCall(threshold, costBps, limit) ==
    LET args == [threshold |-> threshold, costBps |-> costBps, limit |-> limit]
        featsFp == latestFile(procDir, FeaturesPrefix)
        regimeFp == latestFile(procDir, RegimePrefix)
        merged == EquityMerged(readJson(procDir, featsFp),
                               readJson(procDir, regimeFp))
    IN  last' = IF featsFp = NoFile \/ regimeFp = NoFile
                THEN ReturnedNull("getRegimeEquity", args)
                ELSE IF merged = <<>>
                THEN Thrown("getRegimeEquity", args, NoOverlapMessage)
                ELSE Returned("getRegimeEquity", args,
                              regimeEquity(merged, clampThreshold(threshold),
                                           clampCostBps(costBps),
                                           clampLimit(limit)))

----------------------------------------------------------------------------
(* Pipeline: seed.  pullPrices, processFeatures and runRegimeModel are      *)
(* awaited one after the other: the first that throws ends the call.  The   *)
(* pull is stamped now, the features stamp2 and the regime stamp3.          *)

seedPipelineCall(start, quotes, zWindow, k, stamp2, stamp3) ==
    LET args == [start |-> start, zWindow |-> zWindow, k |-> k]
        rows == RowsOfQuotes(quotes)
        rawAfter == writeJson(rawDir, RawName(start, utcStamp), rows)
        read == readJson(rawAfter, latestFile(rawAfter, RawPrefix))
        feats == buildFeatures(read, VolWindowDefault, MomWindowDefault)
        featsAfter == writeJson(procDir, FeaturesName(stamp2), feats)
        readFeats == readJson(featsAfter, latestFile(featsAfter, FeaturesPrefix))
        regime == buildBaselineRegime(readFeats, zWindow, k)
        regimeAfter == writeJson(featsAfter, RegimeName(stamp3), regime)
    IN  IF quotes = <<>>
        THEN /\ last' = Thrown("seedPipeline", args, NoQuotesMessage)
             /\ UNCHANGED <<now, rawDir, procDir>>
        ELSE IF rows = <<>>
        THEN /\ last' = Thrown("seedPipeline", args, TypeErrorMessage)
             /\ rawDir' = rawAfter
             /\ UNCHANGED <<now, procDir>>
        ELSE IF feats = <<>>
        THEN /\ last' = Thrown("seedPipeline", args, TypeErrorMessage)
             /\ rawDir' = rawAfter
             /\ procDir' = featsAfter
             /\ now' = stamp2
        ELSE /\ last' = IF regime = <<>>
                        THEN Thrown("seedPipeline", args, TypeErrorMessage)
                        ELSE Returned("seedPipeline", args, [ok |-> TRUE])
             /\ rawDir' = rawAfter
             /\ procDir' = regimeAfter
             /\ now' = stamp3

----------------------------------------------------------------------------
(* Previews and series                                                     *)

MaxPreview == 25
MinRegimeLimit == 50

getFeaturesPreviewCall(n) ==
    LET args == [n |-> n]
        read == readLatestFeatures
        m == IMax(1, IMin(n, MaxPreview))
    IN  last' = IF ~read.ok
                THEN Thrown("getFeaturesPreview", args, read.message)
                ELSE Returned("getFeaturesPreview", args,
                              [n |-> m, head |-> SliceFirst(read.rows, m),
                               tail |-> SliceLast(read.rows, m)])

getRegimePreviewCall(n) ==
    LET args == [n |-> n]
        read == readLatestRegime
        m == IMax(1, IMin(n, MaxPreview))
    IN  last' = IF ~read.ok
                THEN Thrown("getRegimePreview", args, read.message)
                ELSE Returned("getRegimePreview", args,
                              [n |-> m, head |-> SliceFirst(read.rows, m),
                               tail |-> SliceLast(read.rows, m)])

featuresSeries(rows, limit) ==
    LET sorted == SortByDate(rows)
        sliced == SliceLast(sorted, IMax(1, IMin(limit, MaxLimit)))
        data == [i \in 1..Len(sliced) |->
                   [date |-> sliced[i].date, close |-> sliced[i].close,
                    drawdown |-> sliced[i].drawdown, vol_20 |-> sliced[i].vol_20,
                    mom_60 |-> sliced[i].mom_60]]
    IN  [rows |-> Len(data), data |-> data]

getFeaturesSeriesCall(limit) ==
    LET args == [limit |-> limit]
        fp == latestFile(procDir, FeaturesPrefix)
    IN  last' = IF fp = NoFile THEN ReturnedNull("getFeaturesSeries", args)
                ELSE Returned("getFeaturesSeries", args,
                              featuresSeries(readJson(procDir, fp), limit))

regimeSeries(rows, limit) ==
    LET sorted == SortByDate(rows)
        sliced == SliceLast(sorted, IMax(MinRegimeLimit, IMin(limit, MaxLimit)))
    IN  [rows |-> Len(sliced), data |-> sliced]

getRegimeSeriesCall(limit) ==
    LET args == [limit |-> limit]
        fp == latestFile(procDir, RegimePrefix)
    IN  last' = IF fp = NoFile THEN ReturnedNull("getRegimeSeries", args)
                ELSE Returned("getRegimeSeries", args,
                              regimeSeries(readJson(procDir, fp), limit))

----------------------------------------------------------------------------
(* The server actions as steps of the system                               *)

MaxSecond == 1
MaxCalls == 3
MaxTail == 4
StatsTail == 7

PreviewDefault == 5
SeriesLimitDefault == 1500
ThresholdDefault == <<7, 10>>
CostBpsDefault == R(5)

Starts == {1, 2}
Closes == {1, 2}
ZWindows == {2, 3}
Ks == {<<5, 4>>}
Thresholds == {<<-1, 2>>, Zero, <<7, 10>>, <<3, 2>>}
CostsBps == {R(-5), Zero, R(300)}
Limits == {0, 2, 6000}
IsoShifts == {0, 1}

\* what yf.chart returns: MomWindowDefault days at close 1, then the closes
\* of tail, on consecutive days from start
Quotes(start, tail) ==
    [i \in 1..(MomWindowDefault + Len(tail)) |->
        [date |-> start + i - 1,
         close |-> IF i <= MomWindowDefault THEN One
                   ELSE R(tail[i - MomWindowDefault]),
         volume |-> R(100)]]

ShortQuotes(start) ==
    <<[date |-> start, close |-> One, volume |-> R(100)],
      [date |-> start + 1, close |-> Null, volume |-> Null],
      [date |-> start + 2, close |-> R(2), volume |-> Null]>>

QuoteLists(start) ==
    {<<>>, ShortQuotes(start), Quotes(start, <<2, 1, 2, 2>>)}

NoCall == [fn |-> "none"]

\* the Research page is not open
PageClosed == [open |-> FALSE]

EmptyDir == [name \in {} |-> <<>>]

StoreIdle ==
    /\ now = 0
    /\ rawDir = EmptyDir
    /\ procDir = EmptyDir
    /\ last = [op |-> "none"]
    /\ calls = 0

Init ==
    /\ StoreIdle
    /\ fnIn = NoCall
    /\ fnOut = NoCall
    /\ page = PageClosed

tick ==
    /\ now < MaxSecond
    /\ now' = now + 1
    /\ UNCHANGED <<rawDir, procDir, last, calls, fnIn, fnOut, page>>

pullPrices ==
    /\ calls < MaxCalls
    /\ calls' = calls + 1
    /\ \E start \in Starts : \E quotes \in QuoteLists(start) :
          pullPricesCall(start, quotes)
    /\ UNCHANGED <<now, procDir, fnIn, fnOut, page>>

processFeatures ==
    /\ calls < MaxCalls
    /\ calls' = calls + 1
    /\ processFeaturesCall
    /\ UNCHANGED <<now, rawDir, fnIn, fnOut, page>>

runRegimeModel ==
    /\ calls < MaxCalls
    /\ calls' = calls + 1
    /\ \E zWindow \in ZWindows : \E k \in Ks : runRegimeModelCall(zWindow, k)
    /\ UNCHANGED <<now, rawDir, fnIn, fnOut, page>>

seedPipeline ==
    /\ calls < MaxCalls
    /\ calls' = calls + 1
    /\ \E start \in Starts : \E quotes \in QuoteLists(start) :
          \E zWindow \in ZWindows : \E k \in Ks :
             \E stamp2 \in now..MaxSecond : \E stamp3 \in stamp2..MaxSecond :
                seedPipelineCall(start, quotes, zWindow, k, stamp2, stamp3)
    /\ UNCHANGED <<fnIn, fnOut, page>>

getDataQuality ==
    /\ \E isoShift \in IsoShifts : getDataQualityCall(isoShift)
    /\ UNCHANGED <<now, rawDir, procDir, calls, fnIn, fnOut, page>>

getFeaturesPreview(sizes) ==
    /\ \E n \in sizes : getFeaturesPreviewCall(n)
    /\ UNCHANGED <<now, rawDir, procDir, calls, fnIn, fnOut, page>>

getRegimePreview(sizes) ==
    /\ \E n \in sizes : getRegimePreviewCall(n)
    /\ UNCHANGED <<now, rawDir, procDir, calls, fnIn, fnOut, page>>

getFeaturesSeries(limits) ==
    /\ \E limit \in limits : getFeaturesSeriesCall(limit)
    /\ UNCHANGED <<now, rawDir, procDir, calls, fnIn, fnOut, page>>

getRegimeSeries(limits) ==
    /\ \E limit \in limits : getRegimeSeriesCall(limit)
    /\ UNCHANGED <<now, rawDir, procDir, calls, fnIn, fnOut, page>>

getRegimeStats(thresholds) ==
    /\ \E threshold \in thresholds : getRegimeStatsCall(threshold)
    /\ UNCHANGED <<now, rawDir, procDir, calls, fnIn, fnOut, page>>

getRegimeEquity(thresholds, costs, limits) ==
    /\ \E threshold \in thresholds : \E costBps \in costs :
          \E limit \in limits : getRegimeEquityCall(threshold, costBps, limit)
    /\ UNCHANGED <<now, rawDir, procDir, calls, fnIn, fnOut, page>>

\* the pipeline from an empty store; the queries take their default arguments
Next ==
    \/ tick
    \/ pullPrices
    \/ processFeatures
    \/ runRegimeModel
    \/ getDataQuality
    \/ getFeaturesPreview({PreviewDefault})
    \/ getRegimePreview({PreviewDefault})
    \/ getFeaturesSeries({SeriesLimitDefault})
    \/ getRegimeSeries({SeriesLimitDefault})
    \/ getRegimeStats({ThresholdDefault})
    \/ getRegimeEquity({ThresholdDefault}, {CostBpsDefault}, {MaxLimit})

Spec == Init /\ [][Next]_vars

\* the seeding of the pipeline on a store that earlier pulls have filled;
\* the clock advances between the steps of a seeding (stamp2, stamp3)
NextSeed ==
    \/ pullPrices
    \/ seedPipeline

SpecSeed == Init /\ [][NextSeed]_vars

----------------------------------------------------------------------------
(* The queries on a seeded store: pullPrices, processFeatures and          *)
(* runRegimeModel have run once, in this order, within second 0.           *)

Seeded(start, quotes, zWindow, k) ==
    LET rows == RowsOfQuotes(quotes)
        feats == buildFeatures(rows, VolWindowDefault, MomWindowDefault)
        regime == buildBaselineRegime(feats, zWindow, k)
    IN  /\ now = 0
        /\ rawDir = writeJson(EmptyDir, RawName(start, 0), rows)
        /\ procDir = writeJson(writeJson(EmptyDir, FeaturesName(0), feats),
                               RegimeName(0), regime)
        /\ last = [op |-> "none"]
        /\ calls = 3
        /\ fnIn = NoCall
        /\ fnOut = NoCall
        /\ page = PageClosed

InitJoin ==
    \E tail \in [1..MaxTail -> Closes] : \E zWindow \in ZWindows : \E k \in Ks :
        Seeded(1, Quotes(1, tail), zWindow, k)

NextJoin ==
    \/ getFeaturesSeries(Limits)
    \/ getRegimeSeries(Limits)
    \/ getRegimeStats(Thresholds)
    \/ getRegimeEquity(Thresholds, CostsBps, Limits)

SpecJoin == InitJoin /\ [][NextJoin]_vars

PatternLen == 4
LongTail == 13

\* the closes of pattern, repeated up to n days
Repeat(pattern, n) == [i \in 1..n |-> pattern[((i - 1) % Len(pattern)) + 1]]

\* longer series, for the statistics of buckets of MinSamples rows and more:
\* every tail of StatsTail days, and the periodic tails of LongTail days
InitStats ==
    \E zWindow \in ZWindows : \E k \in Ks :
        \/ \E tail \in [1..StatsTail -> Closes] :
              Seeded(1, Quotes(1, tail), zWindow, k)
        \/ \E pattern \in [1..PatternLen -> Closes] :
              Seeded(1, Quotes(1, Repeat(pattern, LongTail)), zWindow, k)

NextStats == getRegimeStats(Thresholds)

SpecStats == InitStats /\ [][NextStats]_vars

----------------------------------------------------------------------------
(* Direct calls of the internal functions on bounded inputs                *)

MaxRows == 3
MaxWin == 2

RawRowsOf(dates, closes) ==
    [date : dates, close : {R(c) : c \in closes}, volume : {R(100)}]

SeqsUpTo(S, n) == UNION {[1..k -> S] : k \in 0..n}

FeatureInputs ==
    [fn : {"buildFeatures"},
     rows : SeqsUpTo(RawRowsOf(1..MaxRows, Closes), MaxRows),
     volWindow : 2..MaxWin,
     momWindow : 1..MaxWin]

FeatureRowsOf(dates, vols) ==
    [date : dates, close : {One}, log_ret : {Zero}, vol_20 : vols,
     mom_60 : {Zero}, drawdown : {Zero}]

RegimeInputs ==
    [fn : {"buildBaselineRegime"},
     feats : SeqsUpTo(FeatureRowsOf(1..MaxRows, {Zero, <<1, 10>>}), MaxRows),
     zWindow : 2..MaxWin,
     k : Ks \cup {R(100)}]

QualityInputs ==
    [fn : {"qualityReport"},
     rows : SeqsUpTo(RawRowsOf(1..MaxRows, Closes), MaxRows),
     isoShift : IsoShifts]

RollInputs ==
    [fn : {"rolling"},
     arr : SeqsUpTo({R(1), R(2), R(4)}, MaxRows + 1)
              \cup {<<R(1), R(2), R(3), R(4), R(5)>>},
     window : 2..(MaxWin + 1)]

\* the dates of a regime series, ascending, its probabilities and the stress
\* threshold of the page
BandInputs ==
    UNION {[fn : {"computeRiskOffBands"},
            dates : {d \in [1..n -> 1..(n + 1)] :
                        \A i \in 1..(n - 1) : d[i] < d[i + 1]},
            probs : [1..n -> {<<1, 4>>, <<1, 2>>, <<3, 4>>}],
            threshold : {<<1, 2>>}] : n \in 0..(MaxRows + 1)}

InitFeatures ==
    /\ StoreIdle
    /\ fnIn \in FeatureInputs \cup RegimeInputs \cup QualityInputs
                \cup RollInputs \cup BandInputs
    /\ fnOut = NoCall
    /\ page = PageClosed

\* the array of the caller after a call that sorts in place
argumentAfterSortInPlace(arr) == SortByDate(arr)

\* the array of the caller after the call: [...rows].sort(...) sorts a copy,
\* and nothing else writes to the argument
argumentAfter(arr) == arr

callBuildFeatures ==
    /\ fnIn.fn = "buildFeatures"
    /\ fnOut = NoCall
    /\ fnOut' = [fn |-> "buildFeatures",
                 out |-> buildFeatures(fnIn.rows, fnIn.volWindow, fnIn.momWindow),
                 arg |-> argumentAfter(fnIn.rows)]
    /\ UNCHANGED <<now, rawDir, procDir, last, calls, fnIn, page>>

callBuildBaselineRegime ==
    /\ fnIn.fn = "buildBaselineRegime"
    /\ fnOut = NoCall
    /\ fnOut' = [fn |-> "buildBaselineRegime",
                 out |-> buildBaselineRegime(fnIn.feats, fnIn.zWindow, fnIn.k),
                 arg |-> argumentAfter(fnIn.feats)]
    /\ UNCHANGED <<now, rawDir, procDir, last, calls, fnIn, page>>

callQualityReport ==
    /\ fnIn.fn = "qualityReport"
    /\ fnOut = NoCall
    /\ fnOut' = [fn |-> "qualityReport",
                 out |-> qualityReport(fnIn.rows, fnIn.isoShift),
                 arg |-> argumentAfter(fnIn.rows)]
    /\ UNCHANGED <<now, rawDir, procDir, last, calls, fnIn, page>>

\* rollingMean and rollingStd on the same array and window
callRolling ==
    /\ fnIn.fn = "rolling"
    /\ fnOut = NoCall
    /\ fnOut' = [fn |-> "rolling",
                 mean |-> ArrayOf(rollingMean(fnIn.arr, fnIn.window), Len(fnIn.arr)),
                 std |-> ArrayOf(rollingStd(fnIn.arr, fnIn.window), Len(fnIn.arr))]
    /\ UNCHANGED <<now, rawDir, procDir, last, calls, fnIn, page>>

\* the band closed on the last day of the run
bandEndAtRunLast(dates, i) == dates[i - 1]

\* bands.push({ x1: start, x2: dates[i] })
bandEndAt(dates, i) == dates[i]

\* bands and start after the first i turns of the loop; start is null or
\* holds the date the open run began on
RECURSIVE BandsLoop(_, _, _, _)
BandsLoop(dates, probs, threshold, i) ==
    IF i = 0 THEN [bands |-> <<>>, start |-> Null]
    ELSE LET prev == BandsLoop(dates, probs, threshold, i - 1)
             isOff == RLe(threshold, probs[i])
             start == IF isOff /\ prev.start = Null THEN <<dates[i]>>
                      ELSE prev.start
         IN  IF ~isOff /\ start # Null
             THEN [bands |-> Append(prev.bands,
                                    [x1 |-> start[1], x2 |-> bandEndAt(dates, i)]),
                   start |-> Null]
             ELSE [bands |-> prev.bands, start |-> start]

computeRiskOffBands(dates, probs, threshold) ==
    LET end == BandsLoop(dates, probs, threshold, Len(dates))
    IN  IF end.start # Null /\ Len(dates) > 0
        THEN Append(end.bands, [x1 |-> end.start[1], x2 |-> dates[Len(dates)]])
        ELSE end.bands

callComputeRiskOffBands ==
    /\ fnIn.fn = "computeRiskOffBands"
    /\ fnOut = NoCall
    /\ fnOut' = [fn |-> "computeRiskOffBands",
                 out |-> computeRiskOffBands(fnIn.dates, fnIn.probs,
                                             fnIn.threshold)]
    /\ UNCHANGED <<now, rawDir, procDir, last, calls, fnIn, page>>

NextFeatures ==
    \/ callBuildFeatures
    \/ callBuildBaselineRegime
    \/ callQualityReport
    \/ callRolling
    \/ callComputeRiskOffBands

SpecFeatures == InitFeatures /\ [][NextFeatures]_vars

----------------------------------------------------------------------------
(* Properties                                                              *)

DistinctDates(rows) ==
    \A i, j \in 1..Len(rows) : i # j => rows[i].date # rows[j].date

FeaturesCalled == fnOut.fn = "buildFeatures"

----------------------------------------------------------------------------
(* The latest snapshots and the last call                                  *)

LatestFeatures == readJson(procDir, latestFile(procDir, FeaturesPrefix))
LatestRegime == readJson(procDir, latestFile(procDir, RegimePrefix))

HasRaw == latestFile(rawDir, RawPrefix) # NoFile
HasFeatures == latestFile(procDir, FeaturesPrefix) # NoFile
HasRegime == latestFile(procDir, RegimePrefix) # NoFile

DatesOf(rows) == {rows[i].date : i \in 1..Len(rows)}

StatsReturned == last.op = "getRegimeStats" /\ last.status = "ok"
EquityReturned == last.op = "getRegimeEquity" /\ last.status = "ok"

\* C2: getRegimeStats uses the joined rows m[1..L-1] (rows_used = L - 1, 0 when
\* L <= 1), puts row i in the bucket of m[i].risk_off_prob, and the mean of a
\* bucket is the mean of the next rows' log returns m[i + 1].log_ret.
C2_ForwardReturn ==
    StatsReturned =>
        LET m == Merged(LatestFeatures, LatestRegime)
            L == Len(m)
            used == 1..(L - 1)
            off == {i \in used : RLe(last.value.threshold, m[i].risk_off_prob)}
            on == used \ off
            next == [i \in used |-> m[i + 1].log_ret]
        IN  /\ last.value.rows_used = IMax(0, L - 1)
            /\ last.value.risk_on.n = Cardinality(on)
            /\ last.value.risk_off.n = Cardinality(off)
            /\ Cardinality(on) >= MinSamples
               => last.value.risk_on.mean_daily = arrMean(Filter(next, on))
            /\ Cardinality(off) >= MinSamples
               => last.value.risk_off.mean_daily = arrMean(Filter(next, off))

\* a bucket of MinSamples rows whose forward mean differs from the mean of the
\* rows' own log returns
C2_Witness ==
    /\ StatsReturned
    /\ LET m == Merged(LatestFeatures, LatestRegime)
           used == 1..(Len(m) - 1)
           on == {i \in used : RLt(m[i].risk_off_prob, last.value.threshold)}
           own == [i \in used |-> m[i].log_ret]
       IN  /\ Cardinality(on) >= MinSamples
           /\ last.value.risk_on.mean_daily # arrMean(Filter(own, on))

StageCalls == {"pullPrices", "processFeatures", "runRegimeModel"}

LatestOfStage(op) ==
    CASE op = "pullPrices" -> latestFile(rawDir, RawPrefix)
      [] op = "processFeatures" -> latestFile(procDir, FeaturesPrefix)
      [] op = "runRegimeModel" -> latestFile(procDir, RegimePrefix)

StampOf(fp) == fp.key[Len(fp.key)]

\* every call so far wrote a file of its own, no two in the same second
WritesAtDistinctTimes ==
    LET files == DOMAIN rawDir \cup DOMAIN procDir
    IN  /\ Cardinality(files) = calls
        /\ \A f, g \in files : f # g => StampOf(f) # StampOf(g)

\* C3: after successful pullPrices, processFeatures and runRegimeModel calls at
\* strictly increasing times, with any start dates, the latest-snapshot lookup
\* of a stage returns the artifact that the most recent call of the stage wrote.
C3_LatestIsMostRecent ==
    (/\ last.op \in StageCalls
     /\ last.status = "ok"
     /\ WritesAtDistinctTimes)
    => LatestOfStage(last.op) = last.value.path

Kept(dir, dirNext) ==
    \A f \in DOMAIN dir : f \in DOMAIN dirNext /\ dirNext[f] = dir[f]

\* C4: no call overwrites or changes an artifact written by an earlier call,
\* also when two calls of a stage happen within the same second.
C4_NeverOverwritten ==
    [][Kept(rawDir, rawDir') /\ Kept(procDir, procDir')]_vars

JoinCalls == {"getRegimeStats", "getRegimeEquity"}

\* C5: when the latest feature and regime snapshots both exist and share no
\* date, getRegimeStats and getRegimeEquity fail with an error.
C5_NoOverlapFails ==
    (/\ last.op \in JoinCalls
     /\ HasFeatures /\ HasRegime
     /\ DatesOf(LatestFeatures) \cap DatesOf(LatestRegime) = {})
    => last.status = "error"

\* the stages whose latest snapshot an operation consumes
Consumes(op) ==
    CASE op \in {"getDataQuality", "processFeatures"} -> {"raw"}
      [] op \in {"runRegimeModel", "getFeaturesPreview", "getFeaturesSeries"}
            -> {"features"}
      [] op \in {"getRegimePreview", "getRegimeSeries"} -> {"regime"}
      [] op \in JoinCalls -> {"features", "regime"}
      [] OTHER -> {}

Missing(stage) ==
    CASE stage = "raw" -> ~HasRaw
      [] stage = "features" -> ~HasFeatures
      [] stage = "regime" -> ~HasRegime

\* the stage an error message names
StageNamedBy(message) ==
    CASE message = NoRawMessage -> "raw"
      [] message = NoFeaturesMessage -> "features"
      [] message = NoRegimeMessage -> "regime"
      [] OTHER -> "none"

\* C6: an operation that consumes the latest snapshot of a stage fails, with an
\* error that names the missing stage, when that snapshot does not exist.
C6_MissingStageFails ==
    LET missing == {stage \in Consumes(last.op) : Missing(stage)}
    IN  missing # {} =>
            /\ last.status = "error"
            /\ StageNamedBy(last.message) \in missing

\* C7: getRegimeEquity uses and echoes threshold clamped to [0,1] and cost_bps
\* clamped to [0,200] and returns the last limit rows for limit clamped to
\* [1,5000]; getRegimeStats clamps its threshold to [0,1]; getFeaturesSeries
\* and getRegimeSeries clamp their limit to [1,5000].
C7_ClampedEverywhere ==
    /\ EquityReturned =>
          /\ last.value.threshold = RClamp(Zero, last.args.threshold, One)
          /\ last.value.cost_bps = RClamp(Zero, last.args.costBps, R(MaxCostBps))
          /\ last.value.rows =
                IMin(Clamp(1, last.args.limit, MaxLimit),
                     Len(EquityMerged(LatestFeatures, LatestRegime)))
    /\ StatsReturned =>
          last.value.threshold = RClamp(Zero, last.args.threshold, One)
    /\ last.op = "getFeaturesSeries" /\ last.status = "ok" =>
          last.value.rows =
             IMin(Clamp(1, last.args.limit, MaxLimit), Len(LatestFeatures))
    /\ last.op = "getRegimeSeries" /\ last.status = "ok" =>
          last.value.rows =
             IMin(Clamp(1, last.args.limit, MaxLimit), Len(LatestRegime))

\* C8: with cost_bps = 0, regime_net equals regime_gross at every index, for
\* every threshold and series; so do the two summaries' final equities, and
\* the cost drag is 0.
C8_ZeroCostNetIsGross ==
    (EquityReturned /\ last.value.cost_bps = Zero) =>
        /\ \A i \in 1..Len(last.value.data) :
              last.value.data[i].regime_net = last.value.data[i].regime_gross
        /\ last.value.summaries.regime_net.final_equity
              = last.value.summaries.regime_gross.final_equity
        /\ last.value.cost_drag_final_equity = Zero

\* zero cost, the whole series returned, a day out of the market on which the
\* market moved and a day with a trade
C8_Witness ==
    /\ EquityReturned
    /\ last.value.cost_bps = Zero
    /\ last.value.rows = last.value.summaries.buy_hold.n
    /\ \E i \in 2..Len(last.value.data) :
          /\ last.value.data[i].pos = 0
          /\ last.value.data[i].bh # last.value.data[i - 1].bh
    /\ \E i \in 1..Len(last.value.data) : last.value.data[i].trade = 1

\* C9: with threshold = 0 and any cost the position is 0 on every day,
\* regime_gross and regime_net stay at 1 and there is at most one trade.
C9_ThresholdZeroStaysFlat ==
    (EquityReturned /\ last.args.threshold = Zero) =>
        /\ \A i \in 1..Len(last.value.data) :
              /\ last.value.data[i].pos = 0
              /\ last.value.data[i].regime_gross = One
              /\ last.value.data[i].regime_net = One
        /\ last.value.summaries.regime_gross.final_equity = One
        /\ last.value.summaries.regime_net.final_equity = One
        /\ last.value.trades <= 1

\* threshold 0 at a positive cost, on a whole series in which the market moved
C9_Witness ==
    /\ EquityReturned
    /\ last.args.threshold = Zero
    /\ RLt(Zero, last.value.cost_bps)
    /\ last.value.rows = last.value.summaries.buy_hold.n
    /\ \E i \in 1..Len(last.value.data) : last.value.data[i].bh # One

LimitFree ==
    {"summaries", "trades", "trades_per_year", "cost_drag_final_equity",
     "start", "end"}

\* C10: the data of getRegimeEquity is the last min(limit, L) rows of the full
\* equity series, rows is their number, and the summaries, trades,
\* trades_per_year, cost_drag_final_equity, start and end are those of all L
\* rows, whatever the limit.
C10_LimitOnlyCutsData ==
    EquityReturned =>
        LET merged == EquityMerged(LatestFeatures, LatestRegime)
            L == Len(merged)
            full == regimeEquity(merged, last.value.threshold,
                                 last.value.cost_bps, MaxLimit)
            shown == IMin(Clamp(1, last.args.limit, MaxLimit), L)
        IN  /\ Len(full.data) = L
            /\ last.value.rows = shown
            /\ last.value.data = SubSeq(full.data, L - shown + 1, L)
            /\ \A key \in LimitFree : last.value[key] = full[key]
            /\ \A curve \in DOMAIN last.value.summaries :
                  /\ last.value.summaries[curve].n = L
                  /\ last.value.summaries[curve].final_equity
                        = IF curve = "buy_hold" THEN full.data[L].bh
                          ELSE full.data[L][curve]

\* a limit of 2 on a longer joined series whose buy-and-hold curve has left 1
\* by the first row returned
C10_Witness ==
    /\ EquityReturned
    /\ last.value.rows < last.value.summaries.buy_hold.n
    /\ last.value.rows = 2
    /\ last.value.data[1].bh # One

SummaryFields ==
    {"cagr", "ann_return", "ann_vol", "sharpe", "max_drawdown", "final_equity"}

\* C11: when the joined series of getRegimeEquity has 1 to 4 rows, every field
\* of the three summaries other than the sample count n is null.
C11_ShortSeriesAllNull ==
    (EquityReturned /\ last.value.summaries.buy_hold.n < MinSamples) =>
        \A curve \in DOMAIN last.value.summaries :
            /\ last.value.summaries[curve].n \in 1..(MinSamples - 1)
            /\ \A field \in SummaryFields :
                  last.value.summaries[curve][field] = Null

Buckets == {"risk_on", "risk_off"}

\* the usable rows of a bucket, from the joined snapshots: row i of m[1..L-1]
\* is risk-off when m[i].risk_off_prob >= threshold
BucketRows(bucket, m, threshold) ==
    LET used == 1..(Len(m) - 1)
        off == {i \in used : RLe(threshold, m[i].risk_off_prob)}
    IN  IF bucket = "risk_off" THEN off ELSE used \ off

\* C12: a bucket of getRegimeStats with fewer than 5 rows has null mean_daily,
\* ann_return, ann_vol and sharpe, its n is the bucket size and its coverage
\* the bucket size over the usable rows (0 without usable rows); a bucket of 5
\* rows or more has non-null mean_daily, ann_return and ann_vol and a sharpe
\* that is null exactly when ann_vol is not above 0; each delta metric is null
\* exactly when it is null in either bucket.
C12_BucketNulls ==
    StatsReturned =>
        LET m == Merged(LatestFeatures, LatestRegime)
            total == IMax(0, Len(m) - 1)
            v == last.value
        IN  /\ \A b \in Buckets :
                  LET size == Cardinality(BucketRows(b, m, v.threshold))
                  IN  /\ v[b].n = size
                      /\ v[b].coverage
                            = IF total > 0 THEN Norm(size, total) ELSE Zero
                      /\ size < MinSamples
                         => \A key \in StatKeys : v[b][key] = Null
                      /\ size >= MinSamples
                         => /\ v[b].mean_daily # Null
                            /\ v[b].ann_return # Null
                            /\ v[b].ann_vol # Null
                            /\ (v[b].sharpe = Null) <=> ~RLt(Zero, v[b].ann_vol)
            /\ \A key \in StatKeys :
                  (v.delta_risk_on_minus_off[key] = Null)
                  <=> (v.risk_on[key] = Null \/ v.risk_off[key] = Null)

\* both buckets hold MinSamples rows or more: one has a sharpe and the other,
\* of constant forward returns, has none, so that some deltas are numbers and
\* the sharpe delta is null
C12_Witness ==
    /\ StatsReturned
    /\ last.value.risk_on.n >= MinSamples
    /\ last.value.risk_off.n >= MinSamples
    /\ \E a, b \in Buckets :
          /\ last.value[a].sharpe # Null
          /\ last.value[b].sharpe = Null
    /\ last.value.delta_risk_on_minus_off.mean_daily # Null
    /\ last.value.delta_risk_on_minus_off.sharpe = Null

Curves == {"buy_hold", "regime_gross", "regime_net"}

\* the values of a curve over the full joined series, from the equity rows
CurveOf(data, curve) ==
    [i \in 1..Len(data) |->
        IF curve = "buy_hold" THEN data[i].bh ELSE data[i][curve]]

NonDecreasing(eq) == \A i \in 1..(Len(eq) - 1) : RLe(eq[i], eq[i + 1])

\* the equity rows of the whole joined series for the last call's threshold
\* and cost
FullData ==
    regimeEquity(EquityMerged(LatestFeatures, LatestRegime),
                 last.value.threshold, last.value.cost_bps, MaxLimit).data

\* C13: the max_drawdown of each of the three curves of getRegimeEquity is
\* <= 0, and it is 0 exactly when the curve never decreases over the full
\* joined series.
C13_MaxDrawdown ==
    EquityReturned =>
        \A curve \in Curves :
            LET md == last.value.summaries[curve].max_drawdown
                eq == CurveOf(FullData, curve)
            IN  /\ RLe(md, Zero)
                /\ (md = Zero) <=> NonDecreasing(eq)

\* a curve that rises above its start and falls back to it (a drawdown that
\* the first value does not show), next to a curve that stays flat
C13_Witness ==
    /\ EquityReturned
    /\ \E curve \in Curves :
          LET eq == CurveOf(FullData, curve)
          IN  /\ Len(eq) >= 3
              /\ \E i \in 2..(Len(eq) - 1) :
                    RLt(eq[1], eq[i]) /\ RLt(eq[i + 1], eq[i])
              /\ \A i \in 1..Len(eq) : RLe(eq[1], eq[i])
              /\ RLt(last.value.summaries[curve].max_drawdown, Zero)
    /\ \E curve \in Curves :
          /\ NonDecreasing(CurveOf(FullData, curve))
          /\ last.value.summaries[curve].max_drawdown = Zero

\* C14: the output of buildFeatures is strictly ascending by date, whatever
\* the input rows, rows that share a date included.
C14_StrictlyAscending ==
    FeaturesCalled =>
        \A i \in 1..(Len(fnOut.out) - 1) :
            fnOut.out[i].date < fnOut.out[i + 1].date

RegimeCalled == fnOut.fn = "buildBaselineRegime"
QualityCalled == fnOut.fn = "qualityReport"
RollingCalled == fnOut.fn = "rolling"

Perms(n) == {p \in [1..n -> 1..n] : \A i, j \in 1..n : i # j => p[i] # p[j]}

Permuted(s, p) == ArrayOf([i \in 1..Len(s) |-> s[p[i]]], Len(s))

\* C15: buildFeatures returns the same output for every permutation of its
\* input rows, and buildBaselineRegime for every permutation of its feature
\* rows.
C15_OrderFree ==
    /\ FeaturesCalled =>
          \A p \in Perms(Len(fnIn.rows)) :
              buildFeatures(Permuted(fnIn.rows, p), fnIn.volWindow,
                            fnIn.momWindow) = fnOut.out
    /\ RegimeCalled =>
          \A p \in Perms(Len(fnIn.feats)) :
              buildBaselineRegime(Permuted(fnIn.feats, p), fnIn.zWindow,
                                  fnIn.k) = fnOut.out

C18_Drawdown ==
    FeaturesCalled =>
        LET sorted == SortByDate(fnIn.rows)
            n == Len(sorted)
            closes == [i \in 1..n |-> sorted[i].close]
            AtMax(i) == \A j \in 1..i : RLe(closes[j], closes[i])
            offset == n - Len(fnOut.out)
        IN  /\ \A i \in 1..n :
                  LET dd == drawdownAt(closes, i)
                  IN  /\ dd # Null
                      /\ RLe(dd, Zero)
                      /\ (dd = Zero) <=> AtMax(i)
            /\ n >= 1 => drawdownAt(closes, 1) = Zero
            /\ \A k \in 1..Len(fnOut.out) :
                  /\ fnOut.out[k].drawdown # Null
                  /\ RLe(fnOut.out[k].drawdown, Zero)
                  /\ (fnOut.out[k].drawdown = Zero) <=> AtMax(offset + k)

\* an output row at a new maximum followed by one below it
C18_Witness ==
    /\ FeaturesCalled
    /\ Len(fnOut.out) >= 2
    /\ \E k \in 1..(Len(fnOut.out) - 1) :
          /\ fnOut.out[k].drawdown = Zero
          /\ RLt(One, fnOut.out[k].close)
          /\ RLt(fnOut.out[k + 1].drawdown, Zero)

C20_RollingWindows ==
    RollingCalled =>
        LET x == fnIn.arr
            n == Len(x)
            w == fnIn.window
            win(i) == [j \in 1..w |-> x[i - w + j]]
            m(i) == RDiv(SumSeq(win(i)), R(w))
            sq(i) == [j \in 1..w |->
                        RMul(RSub(win(i)[j], m(i)), RSub(win(i)[j], m(i)))]
        IN  /\ Len(fnOut.mean) = n
            /\ Len(fnOut.std) = n
            /\ \A i \in 1..n :
                  /\ (fnOut.mean[i] = Null) <=> i < w
                  /\ (fnOut.std[i] = Null) <=> i < w
            /\ \A i \in w..n :
                  /\ fnOut.mean[i] = m(i)
                  /\ fnOut.std[i] = MathSqrt(RDiv(SumSeq(sq(i)), R(w - 1)))
            /\ (x = <<R(1), R(2), R(3), R(4), R(5)>> /\ w = 3)
               => fnOut.mean[3] = R(2) /\ fnOut.std[3] = One

\* the example of the claim
C20_Witness ==
    /\ RollingCalled
    /\ fnIn.arr = <<R(1), R(2), R(3), R(4), R(5)>>
    /\ fnIn.window = 3
    /\ fnOut.std[3] = One
    /\ fnOut.mean[1] = Null

\* C21: for a non-empty raw series, whatever the time zone of the process,
\* qualityReport counts the Monday-to-Friday dates between the first and the
\* last date that are no row's date, and samples the first min(10, count) of
\* them in ascending order.
C21_MissingBusinessDays ==
    (QualityCalled /\ fnIn.rows # <<>>) =>
        LET dates == DatesOf(fnIn.rows)
            first == CHOOSE d \in dates : \A e \in dates : d <= e
            final == CHOOSE d \in dates : \A e \in dates : e <= d
            gaps == {d \in first..final : Dow(d) \notin {0, 6} /\ d \notin dates}
            count == Cardinality(gaps)
            sample == fnOut.out.missing_business_days_sample
        IN  /\ fnOut.out.missing_business_days_count = count
            /\ Len(sample) = IMin(SampleSize, count)
            /\ \A x \in 1..Len(sample) :
                  /\ sample[x] \in gaps
                  /\ Cardinality({d \in gaps : d < sample[x]}) = x - 1

\* C22: in getRegimeEquity the position of a joined row is 1 when its
\* risk_off_prob is below the threshold used and 0 otherwise; the first row
\* has no trade, a later row has one exactly when its position differs from
\* the row before; trades is the number of rows with a trade.
C22_PositionsAndTrades ==
    EquityReturned =>
        LET m == EquityMerged(LatestFeatures, LatestRegime)
            L == Len(m)
            data == last.value.data
            offset == L - Len(data)
            full == FullData
        IN  /\ \A x \in 1..Len(data) :
                  /\ data[x].pos
                        = IF RLt(m[offset + x].risk_off_prob, last.value.threshold)
                          THEN 1 ELSE 0
                  /\ (x > 1) =>
                        (data[x].trade = 1 <=> data[x].pos # data[x - 1].pos)
                  /\ data[x].trade \in {0, 1}
            /\ offset = 0 => data[1].trade = 0
            /\ full[1].trade = 0
            /\ last.value.trades
                  = Cardinality({i \in 1..L : full[i].trade = 1})

\* the whole series returned: invested on the first row, out on the second,
\* which is the one trade
C22_Witness ==
    /\ EquityReturned
    /\ last.value.rows = last.value.summaries.buy_hold.n
    /\ last.value.rows >= 2
    /\ last.value.data[1].pos = 1
    /\ last.value.data[1].trade = 0
    /\ last.value.data[2].pos = 0
    /\ last.value.data[2].trade = 1
    /\ last.value.trades = 1

\* C23: the three curves of getRegimeEquity are 1 on the first joined row; on
\* a later row regime_gross keeps its value when the row's position is 0, and
\* grows by the row's own close ratio, as bh does, when the position is 1.
C23_GrossCompounding ==
    EquityReturned =>
        LET m == EquityMerged(LatestFeatures, LatestRegime)
            data == last.value.data
            offset == Len(m) - Len(data)
        IN  /\ offset = 0 =>
                  /\ data[1].bh = One
                  /\ data[1].regime_gross = One
                  /\ data[1].regime_net = One
            /\ \A x \in 2..Len(data) :
                  /\ RMul(data[x].bh, m[offset + x - 1].close)
                        = RMul(data[x - 1].bh, m[offset + x].close)
                  /\ data[x].pos = 0
                     => data[x].regime_gross = data[x - 1].regime_gross
                  /\ data[x].pos = 1
                     => RMul(data[x].regime_gross, data[x - 1].bh)
                           = RMul(data[x - 1].regime_gross, data[x].bh)

\* the whole series returned, with a day out of the market on which the close
\* moved
C23_Witness ==
    /\ EquityReturned
    /\ last.value.rows = last.value.summaries.buy_hold.n
    /\ \E x \in 2..Len(last.value.data) :
          /\ last.value.data[x].pos = 0
          /\ last.value.data[x].bh # last.value.data[x - 1].bh
          /\ last.value.data[x].regime_gross = last.value.data[x - 1].regime_gross
    /\ RLt(Zero, last.value.cost_bps)

\* C24: every risk_off_prob emitted by buildBaselineRegime is strictly between
\* 0 and 1, for every finite z-score and every finite k.
C24_ProbStrictlyInside ==
    RegimeCalled =>
        \A x \in 1..Len(fnOut.out) :
            /\ RLt(Zero, fnOut.out[x].risk_off_prob)
            /\ RLt(fnOut.out[x].risk_off_prob, One)

\* the step is a call of processFeatures on a raw snapshot that yields no
\* feature row
ProcessFeaturesOnTooFewRows ==
    /\ calls' = calls + 1
    /\ last'.op = "processFeatures"
    /\ HasRaw
    /\ buildFeatures(readLatestPrices.rows, VolWindowDefault,
                     MomWindowDefault) = <<>>

\* the step is a call of runRegimeModel on a feature snapshot that yields no
\* regime row
RunRegimeModelOnTooFewRows ==
    /\ calls' = calls + 1
    /\ last'.op = "runRegimeModel"
    /\ HasFeatures
    /\ buildBaselineRegime(LatestFeatures, last'.args.zWindow,
                           last'.args.k) = <<>>

\* C25: a call of processFeatures or runRegimeModel that can produce no row
\* fails with an error and leaves the store as it was: no artifact is written
\* and the stage's latest snapshot is the one from before the call.
C25_NoRowsNoWrite ==
    [][(ProcessFeaturesOnTooFewRows \/ RunRegimeModelOnTooFewRows)
       => /\ last'.status = "error"
          /\ procDir' = procDir
          /\ rawDir' = rawDir]_vars

\* C26: when seedPipeline(symbol, start, zWindow, k) completes successfully,
\* whatever the store held before, the latest feature snapshot is the one
\* computed from the raw rows this call pulled, and the latest regime snapshot
\* the one computed from that feature snapshot with this call's zWindow and k.
C26_SeedUsesOwnPull ==
    [][(/\ calls' = calls + 1
        /\ last'.op = "seedPipeline"
        /\ last'.status = "ok")
       => /\ LatestFeatures'
                = buildFeatures(readJson(rawDir', RawName(last'.args.start, now)),
                                VolWindowDefault, MomWindowDefault)
          /\ LatestRegime'
                = buildBaselineRegime(LatestFeatures', last'.args.zWindow,
                                      last'.args.k)]_vars

----------------------------------------------------------------------------
(* getRegimeEquity on crashing markets: the store holds one features        *)
(* snapshot whose closes never rise and fall by a factor of 256 at a time,  *)
(* and one regime snapshot over the same dates.                             *)

CrashCloses == {1, 256, 65536}
CrashProbs == {<<1, 4>>, <<3, 4>>}
CrashThreshold == <<1, 2>>
\* no cost, and 156.25 bps, a cost of 1/64 per trade
CrashCostsBps == {Zero, <<625, 4>>}

CrashFeatures(closes) ==
    [i \in 1..Len(closes) |->
        [date |-> i, close |-> R(closes[i]), log_ret |-> Null, vol_20 |-> Null,
         mom_60 |-> Null, drawdown |-> Null]]

CrashRegime(probs) ==
    [i \in 1..Len(probs) |-> [date |-> i, risk_off_prob |-> probs[i]]]

InitEquity ==
    \E n \in 1..(MaxRows + 1) :
       \E closes \in [1..n -> CrashCloses] : \E probs \in [1..n -> CrashProbs] :
          /\ \A i \in 1..(n - 1) : closes[i] >= closes[i + 1]
          /\ now = 0
          /\ rawDir = EmptyDir
          /\ procDir = writeJson(writeJson(EmptyDir, FeaturesName(0),
                                           CrashFeatures(closes)),
                                 RegimeName(0), CrashRegime(probs))
          /\ last = [op |-> "none"]
          /\ calls = 0
          /\ fnIn = NoCall
          /\ fnOut = NoCall
          /\ page = PageClosed

NextEquity == getRegimeEquity({CrashThreshold}, CrashCostsBps, {MaxLimit})

SpecEquity == InitEquity /\ [][NextEquity]_vars

\* C27: in getRegimeEquity, for positive closes, every threshold and every
\* cost from 0 to 200 bps, regime_net is at most regime_gross on every row, so
\* cost_drag_final_equity is not negative; regime_net is below regime_gross
\* only on a row at or after the first trade.
C27_NetNeverAboveGross ==
    EquityReturned =>
        LET full == FullData
            L == Len(full)
        IN  /\ \A i \in 1..L :
                  /\ RLe(full[i].regime_net, full[i].regime_gross)
                  /\ RLt(full[i].regime_net, full[i].regime_gross)
                     => \E j \in 1..i : full[j].trade = 1
            /\ RLe(Zero, last.value.cost_drag_final_equity)
            /\ last.value.cost_drag_final_equity
                  = RSub(full[L].regime_gross, full[L].regime_net)

----------------------------------------------------------------------------
(* The Research page (research/regime-chart.tsx).  What a request returns   *)
(* is modelled by the query it answers: the series, stats and equity shown  *)
(* are named by the control values their request was made with.  A control  *)
(* change re-renders the page, cleans up the effect of the render before    *)
(* (alive = false) and runs the effect again; fetchSeries and runBaseline   *)
(* see the control values of the render they were created in.               *)

MaxRuns == 3

PageControls ==
    [limit : {1500, 500}, stress : {<<7, 10>>, <<1, 2>>}, costBps : {R(5), R(10)}]

\* useState(1500), useState(0.7), useState(5)
DefaultControls == [limit |-> 1500, stress |-> <<7, 10>>, costBps |-> R(5)]

FetchFailed == "Failed to fetch"
RunFailed == "Run failed"

\* the four answers to the requests made with the control values c
SeriesFor(c) ==
    [regime |-> <<[limit |-> c.limit]>>,
     feats |-> <<[limit |-> c.limit]>>,
     stats |-> <<[threshold |-> c.stress]>>,
     equity |-> <<[threshold |-> c.stress, cost_bps |-> c.costBps,
                   limit |-> c.limit]>>]

Shown(p) ==
    [regime |-> p.regime, feats |-> p.feats, stats |-> p.stats,
     equity |-> p.equity]

\* the end of fetchSeries: setRegime, setFeats, setStats, setEquity
fetchSeriesSets(p, c) ==
    [p EXCEPT !.regime = SeriesFor(c).regime, !.feats = SeriesFor(c).feats,
              !.stats = SeriesFor(c).stats, !.equity = SeriesFor(c).equity]

\* the start of the effect's run(): setLoading(true), setError(null),
\* setStats(null), setEquity(null), then fetchSeries() is under way
effectStarts(p, c) ==
    [p EXCEPT !.controls = c,
              !.runs = {[r EXCEPT !.alive = FALSE] : r \in p.runs}
                          \cup {[id |-> p.started + 1, controls |-> c,
                                 alive |-> TRUE]},
              !.started = p.started + 1,
              !.loading = TRUE, !.error = Null,
              !.stats = Null, !.equity = Null,
              !.event = [op |-> "effect"]]

\* the page after its first render and effect
PageMounted ==
    effectStarts([open |-> TRUE, controls |-> DefaultControls,
                  regime |-> <<>>, feats |-> <<>>, stats |-> Null,
                  equity |-> Null, loading |-> TRUE, error |-> Null,
                  running |-> FALSE, runs |-> {}, started |-> 0,
                  baselines |-> {}, event |-> [op |-> "mount"]],
                 DefaultControls)

\* the finally block of run(), and its catch
effectEnds(p, r, ok) ==
    LET caught == IF ~ok /\ r.alive THEN [p EXCEPT !.error = <<FetchFailed>>]
                  ELSE p
    IN  IF r.alive THEN [caught EXCEPT !.loading = FALSE] ELSE caught

\* setRunning(false) only as the last statement of the try block
runningAfterRunInTry(outcome) == outcome # "ok"

\* finally { setRunning(false) }
runningAfterRun(outcome) == FALSE

InitPage ==
    /\ StoreIdle
    /\ fnIn = NoCall
    /\ fnOut = NoCall
    /\ page = PageMounted

StoreUnchanged == UNCHANGED <<now, rawDir, procDir, last, calls, fnIn, fnOut>>

\* setLimit, setStress or setCostBps with a new value
changeControl ==
    /\ page.open
    /\ page.started < MaxRuns
    /\ \E c \in PageControls :
          /\ Cardinality({f \in {"limit", "stress", "costBps"} :
                             c[f] # page.controls[f]}) = 1
          /\ page' = effectStarts(page, c)
    /\ StoreUnchanged

\* the requests of an effect's fetchSeries are answered, or one of them fails
effectSettles ==
    /\ page.open
    /\ \E r \in page.runs : \E ok \in BOOLEAN :
          LET left == [page EXCEPT !.runs = page.runs \ {r},
                                   !.event = [op |-> "effectSettles",
                                              alive |-> r.alive, ok |-> ok]]
              applied == IF ok THEN fetchSeriesSets(left, r.controls) ELSE left
          IN  page' = effectEnds(applied, r, ok)
    /\ StoreUnchanged

\* a click on the button, which is disabled while running
runBaseline ==
    /\ page.open
    /\ ~page.running
    /\ page' = [page EXCEPT !.running = TRUE, !.error = Null,
                            !.baselines = page.baselines
                               \cup {[controls |-> page.controls,
                                      phase |-> "post"]},
                            !.event = [op |-> "runBaseline"]]
    /\ StoreUnchanged

\* the POST is answered: res.ok, or rejected (not ok, or fetch throws)
postSettles ==
    /\ page.open
    /\ \E b \in page.baselines : \E ok \in BOOLEAN :
          /\ b.phase = "post"
          /\ page' = IF ok
                     THEN [page EXCEPT !.baselines = (page.baselines \ {b})
                                          \cup {[b EXCEPT !.phase = "fetch"]},
                                       !.event = [op |-> "postSettles",
                                                  ok |-> TRUE]]
                     ELSE [page EXCEPT !.baselines = page.baselines \ {b},
                                       !.error = <<RunFailed>>,
                                       !.running = runningAfterRun("rejected"),
                                       !.event = [op |-> "postSettles",
                                                  ok |-> FALSE]]
    /\ StoreUnchanged

\* the refetch after the run is answered, or fails
baselineFetchSettles ==
    /\ page.open
    /\ \E b \in page.baselines : \E ok \in BOOLEAN :
          /\ b.phase = "fetch"
          /\ LET left == [page EXCEPT !.baselines = page.baselines \ {b},
                                      !.event = [op |-> "baselineFetchSettles",
                                                 ok |-> ok]]
             IN  page' = IF ok
                         THEN [fetchSeriesSets(left, b.controls) EXCEPT
                                  !.running = runningAfterRun("ok")]
                         ELSE [left EXCEPT
                                  !.error = <<FetchFailed>>,
                                  !.running = runningAfterRun("failed")]
    /\ StoreUnchanged

NextPage ==
    \/ changeControl
    \/ effectSettles
    \/ runBaseline
    \/ postSettles
    \/ baselineFetchSettles

SpecPage == InitPage /\ [][NextPage]_vars

PageQuiet == page.runs = {} /\ page.baselines = {}

\* C28: on the Research page the answer to a request that a control change
\* has superseded is never applied: once every request is answered and no
\* error is shown, the regime, features, stats and equity shown are those
\* of the latest control values.
C28_LatestControlsShown ==
    (page.open /\ PageQuiet /\ page.error = Null)
        => Shown(page) = SeriesFor(page.controls)

BaselineFailed ==
    /\ page.event.op \in {"postSettles", "baselineFetchSettles"}
    /\ ~page.event.ok

\* C29: running is true exactly while a baseline run started from the button
\* is under way, so at most one is; a run whose POST is rejected or whose
\* refetch fails ends with running false, the error message set and the
\* series, stats and equity shown before kept.
C29_RunningFlag ==
    [][/\ page'.running <=> page'.baselines # {}
       /\ Cardinality(page'.baselines) <= 1
       /\ BaselineFailed'
          => /\ page'.error \in {<<RunFailed>>, <<FetchFailed>>}
             /\ ~page'.running
             /\ Shown(page') = Shown(page)]_vars

\* a refetch that failed after series had been shown
C29_Witness ==
    /\ page.open
    /\ page.event = [op |-> "baselineFetchSettles", ok |-> FALSE]
    /\ page.error = <<FetchFailed>>
    /\ ~page.running
    /\ page.regime # <<>>
    /\ page.stats # Null

BandsCalled == fnOut.fn = "computeRiskOffBands"

\* the maximal runs of indices whose probability reaches the threshold
RiskOffRuns(probs, threshold) ==
    LET n == Len(probs)
        off == {i \in 1..n : RLe(threshold, probs[i])}
    IN  {r \in (1..n) \X (1..n) :
            /\ r[1] <= r[2]
            /\ \A i \in r[1]..r[2] : i \in off
            /\ (r[1] - 1) \notin off
            /\ (r[2] + 1) \notin off}

\* C30: computeRiskOffBands returns one band per maximal run of indices with
\* probs[i] >= threshold, in date order; x1 is the date of the run's first
\* index, x2 the date of the first index after the run, or the last date when
\* the run reaches the end; every such index lies in a band, and there is no
\* band when no probability reaches the threshold.
C30_BandPerRun ==
    BandsCalled =>
        LET dates == fnIn.dates
            n == Len(dates)
            runs == RiskOffRuns(fnIn.probs, fnIn.threshold)
            bands == fnOut.out
        IN  /\ Len(bands) = Cardinality(runs)
            /\ \A r \in runs :
                  bands[1 + Cardinality({q \in runs : q[1] < r[1]})]
                     = [x1 |-> dates[r[1]],
                        x2 |-> IF r[2] < n THEN dates[r[2] + 1] ELSE dates[n]]
            /\ \A i \in 1..n :
                  RLe(fnIn.threshold, fnIn.probs[i])
                     => \E k \in 1..Len(bands) :
                           bands[k].x1 <= dates[i] /\ dates[i] <= bands[k].x2
            /\ (\A i \in 1..n : RLt(fnIn.probs[i], fnIn.threshold))
                  => bands = <<>>

\* two bands: one closed by a day below the threshold, one reaching the
\* last date, which is a day at the threshold exactly
C30_Witness ==
    /\ BandsCalled
    /\ Len(fnOut.out) = 2
    /\ fnOut.out[1].x2 < fnOut.out[2].x1
    /\ fnOut.out[2].x2 = fnIn.dates[Len(fnIn.dates)]
    /\ fnIn.probs[Len(fnIn.probs)] = fnIn.threshold

====
